---- MODULE Spec2Model ----
(***************************************************************************)
(* ePaper-Spotify-Clock: one call of Calendar.draw (src/lib/calendar.py)   *)
(* with the track fetch of SpotifyUser (src/lib/spotify_user.py) it makes. *)
(*                                                                         *)
(* Python values are modelled as tagged records so that values of          *)
(* different Python types can be compared: None is [kind |-> "None"], a    *)
(* datetime is [kind |-> "datetime", secs |-> n], a JSON number is         *)
(* [kind |-> "float", secs |-> n].                                         *)
(***************************************************************************)
EXTENDS Naturals, Integers, Sequences, FiniteSets, TLC

VARIABLES
    cacheFile,             \* content of cache/context.json
    sp,                    \* SpotifyUser.sp is set (a spotipy client exists)
    now,                   \* wall clock, seconds
    pc,                    \* position of the draw call
    exc,                   \* the exception that ended the call, or None
    last_drawn_track,      \* Calendar.draw local
    most_recent_track,     \* Calendar.draw local
    should_redraw,         \* Calendar.draw local
    should_download_album, \* Calendar.draw local
    payload,               \* get_most_recent_spotipy_info local
    recent_payload,        \* get_most_recent_spotipy_info local
    attempt,               \* loop index of the running range(3) loop
    fetched,               \* history: what get_most_recent_spotipy_info returned
    curQueries,            \* history: currently-playing queries sent
    recQueries,            \* history: recently-played queries sent
    curAnswered,           \* history: a currently-playing query returned normally
    lastFailure,           \* history: failure of the last attempt of the running query
    refreshed,             \* history: update_spotipy_token was called after lastFailure
    connFailed,            \* history: a query failed with ConnectionError
    queriedAfterConn,      \* history: a query was sent after a ConnectionError
    cacheWrite,            \* history: how the last write_track_to_cache call ended
    textCall,              \* the arguments of a draw_text_wrapped call
    textOut,               \* what the call drew and returned
    four_gray_scale,       \* display_settings.four_gray_scale
    artifact,              \* cache/album_art/AlbumImage_resize.PNG exists
    frame,                 \* what was drawn on Draw.image_obj since it was cleared
    albumFetch,            \* history: how fetch_and_resize_album_art ended in this call
    dithered,              \* history: how dither_album_art ended in this call
    tpc,                   \* position of the refresh thread and of the button thread
    supervisor_pc,         \* position of the supervisor thread
    main_pc,               \* position of the main thread
    draw_lock,             \* holder of draw_lock, or "none"
    stop_event,            \* stop_event is set
    did_epd_init,          \* Calendar.did_epd_init
    epd,                   \* the panel: "off", "ready" or "asleep"
    worker,                \* the init_epd thread of the running call
    orphans,               \* init_epd threads of earlier calls that still run
    sleep_epd,             \* display_settings.sleep_epd
    local_run,             \* Calendar.local_run
    pushedNow,             \* history: the running call pushed a frame
    pushedEarlier,         \* history: an earlier call pushed a frame
    initNow,               \* history: the running call started an init_epd thread
    timedOut,              \* history: a join of an init_epd thread timed out
    settingsFile,          \* content of config/display_settings.json
    display_settings,      \* lib.display_settings.display_settings
    objects,               \* the Calendar and Draw objects constructed
    contextCall,           \* the arguments of a get_context_from_json call
    contextOut,            \* what the call returned or raised
    ended,                 \* the exception that ended the thread of a role, or None
    doubled                \* history: a thread was started for a role that had one alive

vars == <<cacheFile, sp, now, pc, exc, last_drawn_track, most_recent_track,
          should_redraw, should_download_album, payload, recent_payload, attempt,
          fetched, curQueries, recQueries, curAnswered, lastFailure, refreshed,
          connFailed, queriedAfterConn, cacheWrite, textCall, textOut,
          four_gray_scale, artifact, frame, albumFetch, dithered, tpc, supervisor_pc,
          main_pc,
          draw_lock, stop_event, did_epd_init, epd, worker, orphans, sleep_epd,
          local_run, pushedNow, pushedEarlier, initNow, timedOut, settingsFile,
          display_settings, objects, contextCall, contextOut, ended, doubled>>

-----------------------------------------------------------------------------
(* Python values *)

None == [kind |-> "None"]

Unset == [kind |-> "unset"]

Missing == [kind |-> "missing"]

datetime(secs) == [kind |-> "datetime", secs |-> secs]

float(secs) == [kind |-> "float", secs |-> secs]

Raise(type, line) == [kind |-> "exception", type |-> type, line |-> line]

IsException(v) == v.kind = "exception"

\* calendar.py:81, the staleness threshold in seconds
StaleSeconds == 3600

\* the clock readings of the model: a fresh, a borderline and two stale cycles
Times == {10, StaleSeconds, StaleSeconds + 1, 4000}

-----------------------------------------------------------------------------
(* SpotifyTrackMetadata, spotify_user.py:18-27 *)

SpotifyTrackMetadata(track_name, artist_name, context_type, context_name, track_image_link, album_name, timestamp) ==
    [kind |-> "track",
     track_name |-> track_name,
     artist_name |-> artist_name,
     context_type |-> context_type,
     context_name |-> context_name,
     track_image_link |-> track_image_link,
     album_name |-> album_name,
     timestamp |-> timestamp]

\* the dataclass __eq__: every field but timestamp (field(compare=False))
TrackEq(a, b) ==
    /\ a.track_name = b.track_name
    /\ a.artist_name = b.artist_name
    /\ a.context_type = b.context_type
    /\ a.context_name = b.context_name
    /\ a.track_image_link = b.track_image_link
    /\ a.album_name = b.album_name

\* a placeholder whose text fields are left empty
PlaceholderBlank(t) ==
    SpotifyTrackMetadata("", "", "", "", "", "", datetime(t))

\* calendar.py:64-72
Placeholder(t) ==
    SpotifyTrackMetadata("N/A", "N/A", "N/A", "N/A", "N/A", "N/A", datetime(t))

-----------------------------------------------------------------------------
(* The cache file cache/context.json and its JSON text *)

Absent == [kind |-> "absent"]

\* text that json.load rejects with JSONDecodeError
InvalidJson == [kind |-> "invalid"]

\* a JSON document that is no object
JsonList == [kind |-> "list"]

\* the keys of the dict SpotifyTrackMetadata.to_dict gives, spotify_user.py:21-27
TrackKeys ==
    {"track_name", "artist_name", "context_type", "context_name",
     "track_image_link", "album_name", "timestamp"}

\* a JSON object holding the keys `keys` of a track; timestamp is a number or null
JsonObject(keys, track_name, artist_name, context_type, context_name, track_image_link, album_name, timestamp) ==
    [kind |-> "object",
     keys |-> keys,
     track_name |-> track_name,
     artist_name |-> artist_name,
     context_type |-> context_type,
     context_name |-> context_name,
     track_image_link |-> track_image_link,
     album_name |-> album_name,
     timestamp |-> timestamp]

File(json) == [kind |-> "file", json |-> json]

\* dataclasses_json from_dict for the class of spotify_user.py:18-27, called at
\* spotify_user.py:263: a value that is no mapping has no items() (AttributeError), a
\* key without default that is missing is a KeyError, and the field declared
\* `timestamp: dt` is decoded from the JSON number to a datetime (null stays None)
from_dict(ctx) ==
    IF ctx.kind # "object" THEN Raise("AttributeError", 263)
    ELSE IF ~(TrackKeys \subseteq ctx.keys) THEN Raise("KeyError", 263)
    ELSE SpotifyTrackMetadata(ctx.track_name, ctx.artist_name, ctx.context_type,
                              ctx.context_name, ctx.track_image_link, ctx.album_name,
                              IF ctx.timestamp.kind = "float"
                              THEN datetime(ctx.timestamp.secs)
                              ELSE ctx.timestamp)

\* spotify_user.py:258-267
read_track_from_cache(file) ==
    IF file.kind = "file"
    THEN IF file.json.kind = "invalid"
         THEN None                      \* JSONDecodeError is caught and logged
         ELSE from_dict(file.json)      \* any other exception propagates
    ELSE None

\* dataclasses_json to_dict() as called at spotify_user.py:254, encode_json left at
\* its default False: the fields as they are, the datetime not converted
to_dict(obj) ==
    [kind |-> "dict",
     track_name |-> obj.track_name,
     artist_name |-> obj.artist_name,
     context_type |-> obj.context_type,
     context_name |-> obj.context_name,
     track_image_link |-> obj.track_image_link,
     album_name |-> obj.album_name,
     timestamp |-> obj.timestamp]

\* json.dump(d, j_cxt, indent=4), spotify_user.py:254: the text that reaches the file
\* and the exception raised. The encoder writes key by key; a datetime is not JSON
\* serializable (TypeError) and the text written before it, an unfinished object,
\* stays in the file
json_dump(d) ==
    IF d.timestamp.kind = "datetime"
    THEN [text |-> InvalidJson, exc |-> Raise("TypeError", 254)]
    ELSE [text |-> JsonObject(TrackKeys, d.track_name, d.artist_name, d.context_type,
                              d.context_name, d.track_image_link, d.album_name,
                              d.timestamp),
          exc |-> None]

\* spotify_user.py:247-256; `opened` is whether open(..., 'w+') succeeds, its
\* FileNotFoundError and PermissionError are caught at line 255. The result is the
\* file afterwards, the exception that leaves the function, and how the call ended
write_track_to_cache(file, obj, opened) ==
    IF ~opened
    THEN [file |-> file, exc |-> None, how |-> "os_error"]
    ELSE LET w == json_dump(to_dict(obj))
         IN  [file |-> File(w.text),
              exc |-> w.exc,
              how |-> IF IsException(w.exc) THEN "type_error" ELSE "dumped"]

\* datetime.fromtimestamp, called at calendar.py:78: a number gives a datetime,
\* any other argument (a datetime, None) is a TypeError
fromtimestamp(ts) ==
    IF ts.kind = "float" THEN datetime(ts.secs) ELSE Raise("TypeError", 78)

-----------------------------------------------------------------------------
(* The music service: track objects, playing contexts, payloads *)

ImageUrl(album_name) == "https://i.scdn.co/image/" \o album_name

Image(album_name) == [url |-> ImageUrl(album_name)]

Item(name, artists, album_name, images) ==
    [kind |-> "item",
     name |-> name,
     artists |-> artists,
     album |-> [name |-> album_name, images |-> images, uri |-> album_name]]

\* the track objects the service can answer with; the image list may be empty
Items ==
    {Item("SongA", <<"Ann">>, "AlbumX", <<Image("AlbumX")>>),
     Item("SongB", <<"Ann", "Bob">>, "AlbumX", <<Image("AlbumX")>>),
     Item("SongC", <<"Bob">>, "AlbumY", <<Image("AlbumY")>>),
     Item("SongC", <<"Bob">>, "AlbumY", <<>>)}

\* a playing context; the uri is modelled by the name of the resource it denotes
Context(type, uri) == [kind |-> "context", type |-> type, uri |-> uri]

Contexts ==
    {None,
     Context("playlist", "Mix"),
     Context("album", "AlbumX"),
     Context("artist", "Ann"),
     Context("collection", "collection"),
     Context("show", "Podcast")}

\* the answer of current_user_playing_track: None (nothing playing), or a dict whose
\* 'item' is absent, null or a track object
CurrentPayload(item, context) ==
    [kind |-> "dict", item |-> item, track |-> Missing, context |-> context]

CurrentPayloads ==
    {None} \cup {CurrentPayload(i, c) : i \in Items \cup {None, Missing}, c \in Contexts}

\* one play history object of current_user_recently_played
PlayHistory(track, context) ==
    [kind |-> "dict", item |-> Missing, track |-> track, context |-> context]

\* the answer of current_user_recently_played(1): None, or a dict that may hold the
\* key 'items', a list of at most one play history object
RecentPayload(has_items, items) ==
    [kind |-> "dict", has_items |-> has_items, items |-> items]

RecentPayloads ==
    {None, RecentPayload(FALSE, <<>>), RecentPayload(TRUE, <<>>)}
        \cup {RecentPayload(TRUE, <<PlayHistory(i, c)>>) : i \in Items, c \in Contexts}

\* how a query can fail
RateLimit == [kind |-> "exception", type |-> "SpotifyException", reason |-> "rate limit"]

TokenExpired ==
    [kind |-> "exception", type |-> "SpotifyException",
     reason |-> "The access token expired"]

Timeout == [kind |-> "exception", type |-> "ReadTimeout", reason |-> "timeout"]

Unreachable == [kind |-> "exception", type |-> "ConnectionError", reason |-> "unreachable"]

Recoverable == {RateLimit, TokenExpired, Timeout}

QueryFailures == Recoverable \cup {Unreachable}

\* how the name lookup of a context (sp.playlist, sp.album, sp.artist) can end
LookupOutcomes == {"ok", "SpotifyException", "ReadTimeout", "ConnectionError"}

\* how update_spotipy_token can end: True, False (ConnectionError caught at
\* spotify_user.py:61), or an exception it does not catch
RefreshOutcomes == {"True", "False", "raise"}

IsNone(v) == v.kind = "None"

\* dict.get(key) of an absent key is None; None and an absent value are falsy
Truthy(v) == v.kind \notin {"None", "missing"}

RECURSIVE Join(_)
\* ', '.join(names)
Join(names) ==
    IF Len(names) = 0 THEN ""
    ELSE IF Len(names) = 1 THEN names[1]
    ELSE names[1] \o ", " \o Join(Tail(names))

-----------------------------------------------------------------------------
(* SpotifyUser: building a track from a payload *)

\* a handler that leaves the name empty for every context type
OnLookupFailureKeepsEmpty(context_type) == ""

\* spotify_user.py:238-240: the SpotifyException of the lookup is caught; a playlist
\* gets the name "DJ", otherwise context_name keeps the "" of line 215
OnLookupFailure(context_type) == IF context_type = "playlist" THEN "DJ" ELSE ""

\* spotify_user.py:203-245; `lookup` is how the name lookup at line 237 ends, when
\* one is made. The result is the pair (context_type, context_name) or the
\* exception that leaves the function.
get_context_from_json(track_json, lookup) ==
    LET context_json == track_json.context
        track_info == IF Truthy(track_json.track) THEN track_json.track
                      ELSE IF Truthy(track_json.item) THEN track_json.item
                      ELSE None
    IN  IF ~Truthy(context_json) /\ ~Truthy(track_info)
        THEN Raise("TypeError", 224)           \* None['album']
        ELSE
        LET context_type == IF Truthy(context_json) THEN context_json.type ELSE "album"
            context_uri == IF Truthy(context_json) THEN context_json.uri
                           ELSE track_info.album.uri
        IN  IF context_type \in {"playlist", "album", "artist"}
            THEN IF lookup = "ok"
                 THEN [kind |-> "pair", type |-> context_type, name |-> context_uri]
                 ELSE IF lookup = "SpotifyException"
                 THEN [kind |-> "pair", type |-> context_type,
                       name |-> OnLookupFailure(context_type)]
                 ELSE Raise(lookup, 237)       \* only SpotifyException is caught
            ELSE IF context_type = "collection"
            THEN [kind |-> "pair", type |-> context_type, name |-> "Liked Songs"]
            ELSE [kind |-> "pair", type |-> context_type, name |-> ""]

\* spotify_user.py:130-154 with get_track_image_and_album (line 200); t is dt.now()
extract_track_from_current_payload(recent, lookup, t) ==
    LET context == get_context_from_json(recent, lookup)
    IN  IF IsException(context) THEN context
        ELSE IF ~Truthy(recent.item) THEN Raise("TypeError", 141)   \* None['name']
        ELSE IF Len(recent.item.album.images) = 0 THEN Raise("IndexError", 200)
        ELSE SpotifyTrackMetadata(recent.item.name, Join(recent.item.artists),
                                  context.type, context.name,
                                  recent.item.album.images[1].url,
                                  recent.item.album.name, datetime(t))

\* spotify_user.py:157-185; t is dt.now()
extract_track_from_recent_payload(recent, lookup, t) ==
    IF Len(recent.items) = 0 THEN Raise("IndexError", 169)
    ELSE
    LET track == recent.items[1]
    IN  IF Len(track.track.album.images) = 0 THEN Raise("IndexError", 171)
        ELSE
        LET context == get_context_from_json(track, lookup)
        IN  IF IsException(context) THEN context
            ELSE SpotifyTrackMetadata(track.track.name, Join(track.track.artists),
                                      context.type, context.name,
                                      track.track.album.images[1].url,
                                      track.track.album.name, datetime(t))

\* spotify_user.py:85, `payload and 'item' in payload`
HasItemKey(p) == Truthy(p) /\ p.item.kind # "missing"

\* spotify_user.py:88, `recent_payload and 'items' in recent_payload`
HasItemsKey(p) == Truthy(p) /\ p.has_items

\* a loop that makes one attempt more
CurrentLoopOneMore(done) == done < 4

\* spotify_user.py:102, the range(3) of the currently-playing loop: is there an
\* attempt after `done` attempts
CurrentLoopHasNext(done) == done < 3

\* spotify_user.py:116, the range(3) of the recently-played loop
RecentLoopHasNext(done) == done < 3

\* the currently-playing handler refreshing only on an expired token, as the
\* recently-played handler does
CurrentRefreshesOnExpiry(e) == e \in Recoverable /\ e.reason = "The access token expired"

\* spotify_user.py:105-107: every SpotifyException or ReadTimeout of the
\* currently-playing query is followed by update_spotipy_token
CurrentRefreshes(e) == e \in Recoverable

\* spotify_user.py:119-122: a failure of the recently-played query is followed by
\* update_spotipy_token only when its text holds 'The access token expired'
RecentRefreshes(e) == e \in Recoverable /\ e.reason = "The access token expired"

-----------------------------------------------------------------------------
(* Draw.draw_text_wrapped, draw.py:192-259. A text is a sequence of characters. *)

int(n) == [kind |-> "int", val |-> n]

\* the longest text of the model
MaxTextLen == 5

Alphabet == {"a", "W", " "}

Texts == UNION {[1..n -> Alphabet] : n \in 0..MaxTextLen}

\* the widths and indents of the model; width = indent leaves no room at all
Widths == {2, 4, 5, 7}

Indents == {0, 2}

\* the horizontal advance of a glyph of the font
Advance(c) == CASE c = "W" -> 3 [] c = "a" -> 2 [] OTHER -> 1

RECURSIVE TextWidth(_)
\* right - left of font.getbbox(s); the empty string measures 0
TextWidth(s) == IF Len(s) = 0 THEN 0 ELSE Advance(Head(s)) + TextWidth(Tail(s))

\* bottom of font.getbbox(s)
Bottom(s) == IF Len(s) = 0 THEN 0 ELSE 12

isspace(c) == c = " "

\* a test that takes only the empty text for blank
BlankWhenEmpty(s) == Len(s) = 0

\* draw.py:206, `not text.strip()`
Blank(s) == \A i \in 1..Len(s) : isspace(s[i])

\* str[:n]
Prefix(s, n) == SubSeq(s, 1, n)

\* str[i] for i >= -1: index -1 is the last character
CharAt(s, i) == IF i < 0 THEN s[Len(s) + 1 + i] ELSE s[i + 1]

Ellipsis == <<".", ".", ".">>

\* draw.py:213-217: int(w / (w / len(str))), capped at len(str). In floating point
\* the quotient truncates to len(str) for every length below 7 and every width up to
\* 400 (longer texts can lose one: int(254 / (254 / 13)) is 12)
InitialEndIndex(n, w) == n

RECURSIVE ScanEnd(_, _, _)
\* draw.py:218-225, the loop from end_index downwards
ScanEnd(str, w, end_index) ==
    IF end_index < 0 THEN end_index
    ELSE IF /\ (end_index = Len(str) \/ isspace(CharAt(str, end_index - 1)))
            /\ TextWidth(Prefix(str, end_index)) < w
    THEN end_index
    ELSE ScanEnd(str, w, end_index - 1)

\* draw.py:210-227; the result is the pair (end_index, bottom), bottom being that of
\* the last string measured, or the ZeroDivisionError of line 213 or 215
find_end_of_line(str, w) ==
    IF Len(str) = 0 THEN Raise("ZeroDivisionError", 213)
    ELSE IF w = 0 THEN Raise("ZeroDivisionError", 215)
    ELSE LET end_index == ScanEnd(str, w, InitialEndIndex(Len(str), w))
         IN  [kind |-> "pair",
              end |-> end_index,
              bottom |-> IF end_index < 0 THEN Bottom(str)
                         ELSE Bottom(Prefix(str, end_index))]

\* one image_draw.text call: which of the two lines, where, and the text
Line(line, x, y, text) == [line |-> line, x |-> x, y |-> y, text |-> text]

\* the arguments of a call
TextCall(text, init_x, init_y, width, linespacing, indent) ==
    [kind |-> "call", text |-> text, init_x |-> init_x, init_y |-> init_y, width |-> width, linespacing |-> linespacing, indent |-> indent]

\* lines 243-259: the second line, after the first line `line1` ended at first_end
SecondLine(c, line1, first_end) ==
    LET text == c.text
        bottom == Bottom(Prefix(text, first_end))
        from == IF isspace(CharAt(text, first_end)) THEN first_end + 1 ELSE first_end
        second_line_init_y == c.init_y + bottom + c.linespacing
        remaining_text == SubSeq(text, from + 1, Len(text))
        second == find_end_of_line(remaining_text, c.width)
    IN  IF IsException(second)
        THEN [drawn |-> <<line1>>, remaining |-> remaining_text, ret |-> second]
        ELSE [drawn |-> <<line1,
                          Line(2, c.init_x, second_line_init_y,
                               IF 0 < second.end /\ second.end < Len(remaining_text)
                               THEN Prefix(remaining_text, second.end) \o Ellipsis
                               ELSE remaining_text)>>,
              remaining |-> remaining_text,
              ret |-> int(second_line_init_y + second.bottom)]

\* draw.py:192-259: the lines drawn, the text left after the first line, and the
\* value returned or the exception raised
draw_text_wrapped(c) ==
    IF Blank(c.text) THEN [drawn |-> <<>>, remaining |-> <<>>, ret |-> int(c.init_y)]
    ELSE
    LET first == find_end_of_line(c.text, c.width - c.indent)
    IN  IF IsException(first) THEN [drawn |-> <<>>, remaining |-> <<>>, ret |-> first]
        ELSE IF first.end < 0
        THEN [drawn |-> <<Line(1, c.init_x + c.indent, c.init_y, c.text)>>,
              remaining |-> <<>>,
              ret |-> int(c.init_y + first.bottom)]
        ELSE
        LET line1 == Line(1, c.init_x + c.indent, c.init_y, Prefix(c.text, first.end))
        IN  IF first.end = Len(c.text)
            THEN [drawn |-> <<line1>>,
                  remaining |-> <<>>,
                  ret |-> int(c.init_y + Bottom(Prefix(c.text, first.end)))]
            ELSE SecondLine(c, line1, first.end)

\* no call of draw_text_wrapped is being looked at
TextIdle ==
    /\ textCall = None
    /\ textOut = Unset

\* no call of get_context_from_json is looked at on its own
ContextIdle ==
    /\ contextCall = None
    /\ contextOut = Unset

-----------------------------------------------------------------------------
(* Calendar.build_image, calendar.py:125-224, and the Draw calls it makes *)

\* how requests.get and the resize of calendar.py:200-218 can end for a usable link
DownloadOutcomes == {"ok", "RequestException", "IOError"}

\* how dither_album_art (draw.py:280-309) can end: the path of the dithered file,
\* None (a file is missing), or the CalledProcessError of subprocess.run(check=True)
DitherOutcomes == {"ok", "None", "CalledProcessError"}

\* requests.get rejects a link without scheme (MissingSchema, a RequestException)
HasScheme(link) == link # "N/A" /\ link # ""

\* calendar.py:181-218: (local_dir, outfile) when the art was saved and resized, None
\* when the download (line 202-204) or the resize (line 216-218) failed
fetch_and_resize_album_art(track_image_link, download) ==
    IF HasScheme(track_image_link) /\ download = "ok"
    THEN [kind |-> "pair", dir |-> "cache/album_art/", name |-> "AlbumImage_resize.PNG"]
    ELSE None

\* draw.py:143-172: what is pasted on the frame, or the exception raised. With
\* convert_image false no statement binds album_image before line 172 uses it
draw_album_image(image_file_name, convert_image, four_gray, dither) ==
    IF ~convert_image THEN Raise("UnboundLocalError", 172)
    ELSE IF four_gray /\ dither = "CalledProcessError" THEN Raise("CalledProcessError", 299)
    ELSE IF four_gray /\ dither = "None" THEN Raise("AttributeError", 170)
    ELSE [kind |-> "pasted", el |-> "album_art", file |-> image_file_name]

\* draw.py:158-167: dither_album_art is called when the image is converted in 4-gray
\* mode; how that call ended, "none" when none was made
dither_called(convert_image, four_gray, dither) ==
    IF convert_image /\ four_gray THEN dither ELSE "none"

\* a test that asks for the download in every redraw
ShouldFetchAlways(should_download, exists) == TRUE

\* calendar.py:158, `should_download_album or not os.path.exists(...)`
ShouldFetch(should_download, exists) == should_download \/ ~exists

\* calendar.py:149-178: how the fetch ended ("none" when none was made), whether the
\* resized file exists afterwards, and what draw_album_image did
build_album_art(track, should_download, exists, download, four_gray, dither) ==
    IF ShouldFetch(should_download, exists)
    THEN LET newly_saved_image == fetch_and_resize_album_art(track.track_image_link, download)
         IN  IF IsNone(newly_saved_image)
             THEN [fetch |-> "failed",
                   artifact |-> exists,
                   dither |-> dither_called(FALSE, four_gray, dither),
                   drawn |-> draw_album_image("NA.png", FALSE, four_gray, dither)]
             ELSE [fetch |-> "saved",
                   artifact |-> TRUE,
                   dither |-> dither_called(TRUE, four_gray, dither),
                   drawn |-> draw_album_image(newly_saved_image.name, TRUE, four_gray, dither)]
    ELSE [fetch |-> "none",
          artifact |-> exists,
          dither |-> dither_called(FALSE, four_gray, dither),
          drawn |-> draw_album_image("AlbumImage_resize.PNG", FALSE, four_gray, dither)]

\* draw.py:182: the positional parameters draw_small_text requires after self
\* (text, x, y, width)
SmallTextRequired == 4

\* calendar.py:222-223: the arguments draw_small_text is called with (text, x, y)
SmallTextPassed == 3

\* calendar.py:221-224: the elements drawn, or the TypeError of the first call, which
\* lacks the argument `width`
build_track_info(track) ==
    IF SmallTextPassed < SmallTextRequired THEN Raise("TypeError", 222)
    ELSE [kind |-> "drawn",
          els |-> <<[kind |-> "pasted", el |-> "track_name", text |-> track.track_name],
                    [kind |-> "pasted", el |-> "artist_name", text |-> track.artist_name],
                    [kind |-> "pasted", el |-> "context_icon", text |-> track.context_type],
                    [kind |-> "pasted", el |-> "context_text", text |-> track.context_name]>>]

\* draw.py:261-265, draw_calendar
CalendarPanel == [kind |-> "pasted", el |-> "calendar"]

\* the kinds of element on the frame
Elements(f) == {f[i].el : i \in 1..Len(f)}

-----------------------------------------------------------------------------
(* Calendar.draw: the redraw decision, calendar.py:58-85 *)

\* the album flag initialised to False instead
DownloadAlbumOff == FALSE

\* calendar.py:58
DefaultShouldDownloadAlbum == TRUE

\* calendar.py:59
DefaultShouldRedraw == TRUE

\* calendar.py:60-76: the track to show when the fetch gave none
Fallback(last, recent, t) ==
    IF IsNone(recent)
    THEN IF IsNone(last)
         THEN [most_recent_track |-> Placeholder(t),
               should_redraw |-> DefaultShouldRedraw,
               should_download_album |-> DefaultShouldDownloadAlbum]
         ELSE [most_recent_track |-> last,
               should_redraw |-> FALSE,
               should_download_album |-> DefaultShouldDownloadAlbum]
    ELSE [most_recent_track |-> recent,
          should_redraw |-> DefaultShouldRedraw,
          should_download_album |-> DefaultShouldDownloadAlbum]

\* calendar.py:77-85: with a cached track, compare it and its age with the track to
\* show; the result carries the exception of line 78 when fromtimestamp raises
Compare(last, d, t) ==
    IF ~IsNone(d.most_recent_track) /\ ~IsNone(last)
    THEN LET drawn_at == fromtimestamp(last.timestamp)
         IN  IF IsException(drawn_at)
             THEN [most_recent_track |-> d.most_recent_track,
                   should_redraw |-> d.should_redraw,
                   should_download_album |-> d.should_download_album,
                   exc |-> drawn_at]
             ELSE [most_recent_track |-> d.most_recent_track,
                   should_redraw |-> (~TrackEq(last, d.most_recent_track)
                                        \/ t - drawn_at.secs > StaleSeconds),
                   should_download_album |->
                       last.album_name # d.most_recent_track.album_name,
                   exc |-> None]
    ELSE [most_recent_track |-> d.most_recent_track,
          should_redraw |-> d.should_redraw,
          should_download_album |-> d.should_download_album,
          exc |-> None]

\* calendar.py:58-85
RedrawDecision(last, recent, t) == Compare(last, Fallback(last, recent, t), t)

\* the cache files the program can find when it starts: none, text that is no JSON,
\* JSON of the wrong shape, and a track left by an earlier run, written at time 0
CachedTracks ==
    {JsonObject(TrackKeys, "SongA", "Ann", "album", "AlbumX", ImageUrl("AlbumX"),
                "AlbumX", float(0)),
     JsonObject(TrackKeys, "SongC", "Bob", "album", "AlbumY", ImageUrl("AlbumY"),
                "AlbumY", float(0)),
     JsonObject(TrackKeys, "SongC", "Bob", "album", "AlbumY", ImageUrl("AlbumY"),
                "AlbumY", None)}

\* JSON text that is no track: no JSON at all, no object, an object without timestamp
MalformedJson ==
    {InvalidJson, JsonList,
     JsonObject(TrackKeys \ {"timestamp"}, "SongA", "Ann", "album", "AlbumX",
                ImageUrl("AlbumX"), "AlbumX", None)}

CacheFiles == {Absent} \cup {File(j) : j \in MalformedJson \cup CachedTracks}

-----------------------------------------------------------------------------
(* One call of Calendar.draw *)

\* Draw.image_obj as Draw.__init__ leaves it (draw.py:48), no album art fetched yet
RenderStart ==
    /\ frame = <<>>
    /\ albumFetch = "none"
    /\ dithered = "none"

(* DisplaySettings, display_settings.py *)

\* a JSON true or false
JsonBool(b) == [kind |-> "bool", val |-> b]

\* what the file can hold under a key of main_settings: true, false, or no such key
SettingValues == {JsonBool(TRUE), JsonBool(FALSE), Missing}

\* the keys load_main_settings reads, in the order of lines 23-29
SettingKeys ==
    <<"twenty_four_hour_clock", "partial_update", "sleep_epd", "four_gray_scale",
      "use_epd_libV2">>

\* the line of display_settings.py that reads the i-th key
SettingLine == <<23, 24, 26, 27, 29>>

\* the "main_settings" object of the file
MainSettings ==
    [kind : {"dict"},
     twenty_four_hour_clock : SettingValues,
     partial_update : SettingValues,
     sleep_epd : SettingValues,
     four_gray_scale : SettingValues,
     use_epd_libV2 : SettingValues]

\* config/display_settings.json: no file, a JSON object without "main_settings", or
\* one with it
SettingsFiles ==
    {Absent} \cup {[kind |-> "json", main_settings |-> m] : m \in MainSettings \cup {Missing}}

\* a check that lets every combination through
BothOnIgnored(partial_update, four_gray) == FALSE

\* display_settings.py:31, `self.partial_update and self.four_gray_scale`
BothOn(partial_update, four_gray) == partial_update /\ four_gray

\* the keys of main_settings that are absent, as indices of SettingKeys
MissingKeys(m) == {i \in 1..Len(SettingKeys) : m[SettingKeys[i]].kind = "missing"}

\* the least index of a non-empty set of indices
First(S) == CHOOSE i \in S : \A j \in S : i <= j

\* display_settings.py:12-32: the attributes set, or the KeyError of the first absent
\* key, or the ValueError of line 32
load_main_settings(m) ==
    IF MissingKeys(m) # {}
    THEN Raise("KeyError", SettingLine[First(MissingKeys(m))])
    ELSE IF BothOn(m.partial_update.val, m.four_gray_scale.val)
    THEN Raise("ValueError", 32)
    ELSE [kind |-> "DisplaySettings",
          twenty_four_hour_clock |-> m.twenty_four_hour_clock.val,
          partial_update |-> m.partial_update.val,
          sleep_epd |-> m.sleep_epd.val,
          four_gray_scale |-> m.four_gray_scale.val,
          use_epd_lib_V2 |-> m.use_epd_libV2.val]

\* display_settings.py:6-10, DisplaySettings.__init__: the object, or the exception
\* that leaves the constructor
DisplaySettings(file) ==
    IF file.kind = "absent" THEN Raise("FileNotFoundError", 7)
    ELSE IF file.main_settings.kind = "missing" THEN Raise("KeyError", 10)
    ELSE load_main_settings(file.main_settings)

\* the import of lib.display_settings is not looked at: the settings are taken by
\* the values of four_gray_scale and sleep_epd
SettingsIdle ==
    /\ settingsFile = Absent
    /\ display_settings = Unset
    /\ objects = {}

\* the threads that call Calendar.draw
Triggers == {"refresh", "button"}

\* main.py:17-21 and Calendar.__init__ (calendar.py:25-30): no thread started, the
\* lock free, the panel not initialised
MachineStart ==
    /\ draw_lock = "none"
    /\ stop_event = FALSE
    /\ ended = [t \in Triggers |-> None]
    /\ doubled = FALSE
    /\ did_epd_init = FALSE
    /\ epd = "off"
    /\ worker = "none"
    /\ orphans = 0
    /\ pushedNow = FALSE
    /\ pushedEarlier = FALSE
    /\ initNow = FALSE
    /\ timedOut = FALSE
    /\ SettingsIdle

\* one call of a function is looked at, outside the threads of main.py
MachineIdle ==
    /\ tpc = [t \in Triggers |-> "none"]
    /\ supervisor_pc = "none"
    /\ main_pc = "none"
    /\ sleep_epd = TRUE
    /\ local_run = FALSE
    /\ MachineStart

\* get_most_recent_spotipy_info was not called yet
FetchIdle ==
    /\ payload = Unset
    /\ recent_payload = Unset
    /\ attempt = 0
    /\ fetched = Unset
    /\ curQueries = 0
    /\ recQueries = 0
    /\ curAnswered = FALSE
    /\ lastFailure = None
    /\ refreshed = FALSE
    /\ connFailed = FALSE
    /\ queriedAfterConn = FALSE

\* the locals and the history of a call of Calendar.draw before its first step
CallStart ==
    /\ exc = None
    /\ last_drawn_track = Unset
    /\ should_redraw = DefaultShouldRedraw
    /\ should_download_album = DefaultShouldDownloadAlbum
    /\ FetchIdle

Init ==
    /\ cacheFile \in CacheFiles
    /\ sp \in BOOLEAN
    /\ now \in Times
    /\ pc = "read_cache"
    /\ most_recent_track = Unset
    /\ cacheWrite = "none"
    /\ CallStart
    /\ TextIdle
    /\ ContextIdle
    /\ four_gray_scale = FALSE
    /\ artifact = FALSE
    /\ RenderStart
    /\ MachineIdle

drawLocals == <<last_drawn_track, most_recent_track, should_redraw, should_download_album>>

fetchLocals == <<payload, recent_payload, attempt>>

history == <<fetched, curQueries, recQueries, curAnswered, lastFailure, refreshed,
             connFailed, queriedAfterConn>>

world == <<cacheFile, sp, now>>

textVars == <<textCall, textOut>>

contextVars == <<contextCall, contextOut>>

renderVars == <<four_gray_scale, artifact, frame, albumFetch, dithered>>

threadVars == <<tpc, supervisor_pc, main_pc, draw_lock, stop_event>>

threadHist == <<ended, doubled>>

\* the settings file, the settings object and the objects that hold it
settingsVars == <<settingsFile, display_settings, objects>>

panelVars == <<did_epd_init, epd, worker, orphans, sleep_epd, settingsVars, local_run>>

panelHist == <<pushedNow, pushedEarlier, initNow, timedOut>>

\* the threads of main.py and the panel
machine == <<threadVars, threadHist, panelVars, panelHist>>

\* what the actions of lines 56-86 leave alone
rest == <<cacheWrite, textVars, contextVars, renderVars, machine>>

\* calendar.py:56
DrawReadCache ==
    /\ pc = "read_cache"
    /\ LET r == read_track_from_cache(cacheFile)
       IN  IF IsException(r)
           THEN /\ pc' = "raised"
                /\ exc' = r
                /\ UNCHANGED last_drawn_track
           ELSE /\ pc' = "fetch"
                /\ last_drawn_track' = r
                /\ UNCHANGED exc
    /\ UNCHANGED <<world, most_recent_track, should_redraw, should_download_album,
                   fetchLocals, history>>
    /\ UNCHANGED rest

\* get_most_recent_spotipy_info returns `track` to calendar.py:57
Return(track) ==
    /\ pc' = "decide"
    /\ fetched' = track
    /\ most_recent_track' = track

\* calendar.py:57 calls spotify_user.py:80-84
FetchEnter ==
    /\ pc = "fetch"
    /\ IF ~sp
       THEN Return(None)
       ELSE /\ pc' = "current"
            /\ UNCHANGED <<fetched, most_recent_track>>
    /\ UNCHANGED <<world, exc, last_drawn_track, should_redraw, should_download_album,
                   fetchLocals, curQueries, recQueries, curAnswered, lastFailure,
                   refreshed, connFailed, queriedAfterConn>>
    /\ UNCHANGED rest

\* spotify_user.py:84-87 after fetch_current_track_from_spotipy returned p
AfterCurrent(p) ==
    /\ payload' = p
    /\ attempt' = 0
    /\ pc' = IF HasItemKey(p) THEN "extract_current" ELSE "recent"

\* one attempt of spotify_user.py:102-110, answered with r
CurrentQuery ==
    /\ pc = "current"
    /\ \E r \in CurrentPayloads \cup QueryFailures :
          /\ curQueries' = curQueries + 1
          /\ queriedAfterConn' = (queriedAfterConn \/ connFailed)
          /\ IF ~IsException(r)
             THEN /\ AfterCurrent(r)
                  /\ curAnswered' = TRUE
                  /\ lastFailure' = None
                  /\ UNCHANGED <<refreshed, connFailed>>
             ELSE IF r \in Recoverable
             THEN /\ lastFailure' = r
                  /\ refreshed' = FALSE
                  /\ UNCHANGED <<curAnswered, connFailed>>
                  /\ IF CurrentRefreshes(r)
                     THEN /\ pc' = "current_refresh"
                          /\ UNCHANGED <<payload, attempt>>
                     ELSE IF CurrentLoopHasNext(attempt + 1)
                     THEN /\ pc' = "current"
                          /\ attempt' = attempt + 1
                          /\ UNCHANGED payload
                     ELSE AfterCurrent(None)       \* lines 111-112
             ELSE /\ AfterCurrent(None)            \* ConnectionError, line 108-110
                  /\ connFailed' = TRUE
                  /\ lastFailure' = None
                  /\ UNCHANGED <<curAnswered, refreshed>>
    /\ UNCHANGED <<world, exc, drawLocals, recent_payload, fetched, recQueries>>
    /\ UNCHANGED rest

\* spotify_user.py:107, update_spotipy_token in the handler, then the next round of
\* the loop or lines 111-112
CurrentRefresh ==
    /\ pc = "current_refresh"
    /\ \E o \in RefreshOutcomes :
          IF o = "raise"
          THEN /\ pc' = "raised"
               /\ exc' = Raise("SpotifyOauthError", 107)
               /\ UNCHANGED <<payload, attempt, lastFailure, refreshed>>
          ELSE /\ refreshed' = TRUE
               /\ UNCHANGED exc
               /\ IF CurrentLoopHasNext(attempt + 1)
                  THEN /\ pc' = "current"
                       /\ attempt' = attempt + 1
                       /\ UNCHANGED <<payload, lastFailure>>
                  ELSE /\ AfterCurrent(None)
                       /\ lastFailure' = None
    /\ UNCHANGED <<world, drawLocals, recent_payload, fetched, curQueries, recQueries,
                   curAnswered, connFailed, queriedAfterConn>>
    /\ UNCHANGED rest

\* spotify_user.py:88-90 after fetch_recently_played_track_from_spotipy returned p
AfterRecent(p) ==
    /\ recent_payload' = p
    /\ attempt' = 0
    /\ IF HasItemsKey(p)
       THEN /\ pc' = "extract_recent"
            /\ UNCHANGED <<fetched, most_recent_track>>
       ELSE Return(None)

\* one attempt of spotify_user.py:116-125, answered with r
RecentQuery ==
    /\ pc = "recent"
    /\ \E r \in RecentPayloads \cup QueryFailures :
          /\ recQueries' = recQueries + 1
          /\ queriedAfterConn' = (queriedAfterConn \/ connFailed)
          /\ IF ~IsException(r)
             THEN /\ AfterRecent(r)
                  /\ lastFailure' = None
                  /\ UNCHANGED <<refreshed, connFailed>>
             ELSE IF r \in Recoverable
             THEN /\ lastFailure' = r
                  /\ refreshed' = FALSE
                  /\ UNCHANGED connFailed
                  /\ IF RecentRefreshes(r)
                     THEN /\ pc' = "recent_refresh"
                          /\ UNCHANGED <<recent_payload, attempt, fetched,
                                         most_recent_track>>
                     ELSE IF RecentLoopHasNext(attempt + 1)
                     THEN /\ pc' = "recent"
                          /\ attempt' = attempt + 1
                          /\ UNCHANGED <<recent_payload, fetched, most_recent_track>>
                     ELSE AfterRecent(None)       \* lines 126-127
             ELSE /\ AfterRecent(None)            \* ConnectionError, line 123-125
                  /\ connFailed' = TRUE
                  /\ lastFailure' = None
                  /\ UNCHANGED refreshed
    /\ UNCHANGED <<world, exc, last_drawn_track, should_redraw, should_download_album,
                   payload, curQueries, curAnswered>>
    /\ UNCHANGED rest

\* spotify_user.py:122, update_spotipy_token in the handler, then the next round of
\* the loop or lines 126-127
RecentRefresh ==
    /\ pc = "recent_refresh"
    /\ \E o \in RefreshOutcomes :
          IF o = "raise"
          THEN /\ pc' = "raised"
               /\ exc' = Raise("SpotifyOauthError", 122)
               /\ UNCHANGED <<recent_payload, attempt, lastFailure, refreshed, fetched,
                              most_recent_track>>
          ELSE /\ refreshed' = TRUE
               /\ UNCHANGED exc
               /\ IF RecentLoopHasNext(attempt + 1)
                  THEN /\ pc' = "recent"
                       /\ attempt' = attempt + 1
                       /\ UNCHANGED <<recent_payload, lastFailure, fetched,
                                      most_recent_track>>
                  ELSE /\ AfterRecent(None)
                       /\ lastFailure' = None
    /\ UNCHANGED <<world, last_drawn_track, should_redraw, should_download_album,
                   payload, curQueries, recQueries, curAnswered, connFailed,
                   queriedAfterConn>>
    /\ UNCHANGED rest

\* the track or the exception of an extract_track_from_*_payload call leaves
\* get_most_recent_spotipy_info
Deliver(r) ==
    IF IsException(r)
    THEN /\ pc' = "raised"
         /\ exc' = r
         /\ UNCHANGED <<fetched, most_recent_track>>
    ELSE /\ Return(r)
         /\ UNCHANGED exc

\* spotify_user.py:86
ExtractCurrent ==
    /\ pc = "extract_current"
    /\ \E lookup \in LookupOutcomes :
          Deliver(extract_track_from_current_payload(payload, lookup, now))
    /\ UNCHANGED <<world, last_drawn_track, should_redraw, should_download_album,
                   fetchLocals, curQueries, recQueries, curAnswered, lastFailure,
                   refreshed, connFailed, queriedAfterConn>>
    /\ UNCHANGED rest

\* spotify_user.py:89
ExtractRecent ==
    /\ pc = "extract_recent"
    /\ \E lookup \in LookupOutcomes :
          Deliver(extract_track_from_recent_payload(recent_payload, lookup, now))
    /\ UNCHANGED <<world, last_drawn_track, should_redraw, should_download_album,
                   fetchLocals, curQueries, recQueries, curAnswered, lastFailure,
                   refreshed, connFailed, queriedAfterConn>>
    /\ UNCHANGED rest

\* a branch that runs the redraw block whatever was decided
RedrawBranchAlways(should) == "redraw"

\* calendar.py:86, `if should_redraw:`: lines 87-113 are run or skipped
RedrawBranch(should) == IF should THEN "redraw" ELSE "no_redraw"

\* calendar.py:58-86: the decision, then the branch of line 86; an exception of
\* line 78 ends the call with the locals as lines 58-76 left them
Decide ==
    /\ pc = "decide"
    /\ LET d == RedrawDecision(last_drawn_track, most_recent_track, now)
       IN  /\ most_recent_track' = d.most_recent_track
           /\ should_redraw' = d.should_redraw
           /\ should_download_album' = d.should_download_album
           /\ exc' = d.exc
           /\ pc' = IF IsException(d.exc) THEN "raised" ELSE RedrawBranch(d.should_redraw)
    /\ UNCHANGED <<world, last_drawn_track, fetchLocals, history>>
    /\ UNCHANGED rest

Next ==
    \/ DrawReadCache
    \/ FetchEnter
    \/ CurrentQuery
    \/ CurrentRefresh
    \/ RecentQuery
    \/ RecentRefresh
    \/ ExtractCurrent
    \/ ExtractRecent
    \/ Decide

Spec == Init /\ [][Next]_vars

-----------------------------------------------------------------------------
(* The cache file: write_track_to_cache followed by read_track_from_cache *)

\* the tracks the program builds: the placeholder, a track read from the cache file,
\* a track extracted from a payload
BuiltTracks ==
    {Placeholder(t) : t \in Times}
        \cup {from_dict(j) : j \in CachedTracks}
        \cup {r \in {extract_track_from_current_payload(CurrentPayload(i, c), l, t) :
                        i \in Items, c \in Contexts, l \in LookupOutcomes, t \in Times} :
                  r.kind = "track"}

InitCache ==
    /\ cacheFile \in CacheFiles
    /\ sp = FALSE
    /\ now = StaleSeconds
    /\ pc = "write_cache"
    /\ most_recent_track \in BuiltTracks
    /\ cacheWrite = "none"
    /\ CallStart
    /\ TextIdle
    /\ ContextIdle
    /\ four_gray_scale = FALSE
    /\ artifact = FALSE
    /\ RenderStart
    /\ MachineIdle

\* calendar.py:113, write_track_to_cache(most_recent_track)
CacheWrite ==
    /\ pc = "write_cache"
    /\ \E opened \in BOOLEAN :
          LET w == write_track_to_cache(cacheFile, most_recent_track, opened)
          IN  /\ cacheFile' = w.file
              /\ exc' = w.exc
              /\ cacheWrite' = w.how
    /\ pc' = "read_back"
    /\ UNCHANGED <<sp, now, drawLocals, fetchLocals, history, textVars, contextVars, renderVars,
                   machine>>

\* the read_track_from_cache that follows, calendar.py:56 of the next cycle
CacheRead ==
    /\ pc = "read_back"
    /\ LET r == read_track_from_cache(cacheFile)
       IN  IF IsException(r)
           THEN /\ exc' = r
                /\ UNCHANGED last_drawn_track
           ELSE /\ last_drawn_track' = r
                /\ UNCHANGED exc
    /\ pc' = "read_back_done"
    /\ UNCHANGED <<world, most_recent_track, should_redraw, should_download_album,
                   fetchLocals, history, cacheWrite, textVars, contextVars, renderVars, machine>>

NextCache == CacheWrite \/ CacheRead

SpecCache == InitCache /\ [][NextCache]_vars

-----------------------------------------------------------------------------
(* The rendering of a redraw, calendar.py:86-88 and build_image: the call has decided
   to redraw the track most_recent_track *)

InitRender ==
    /\ cacheFile = Absent
    /\ sp = FALSE
    /\ now = StaleSeconds
    /\ pc = "redraw"
    /\ exc = None
    /\ last_drawn_track = None
    /\ most_recent_track \in BuiltTracks
    /\ should_redraw = TRUE
    /\ should_download_album \in BOOLEAN
    /\ FetchIdle
    /\ cacheWrite = "none"
    /\ TextIdle
    /\ ContextIdle
    /\ four_gray_scale \in BOOLEAN
    /\ artifact \in BOOLEAN
    /\ frame \in {<<>>, <<CalendarPanel>>}
    /\ albumFetch = "none"
    /\ dithered = "none"
    /\ MachineIdle

\* a clear_image that leaves the image as it is
clear_image_kept(f) == f

\* draw.py:85-90, clear_image: a new blank image replaces the old one
clear_image(f) == <<>>

\* the position of element el in the sequence order
Pos(el, order) == CHOOSE i \in 1..Len(order) : order[i] = el

\* the elements of frame f were drawn in the sequence `order`, each at most once
InOrder(f, order) ==
    \A i, j \in 1..Len(f) : i < j => Pos(f[i].el, order) < Pos(f[j].el, order)

\* the order of the calls of build_image (calendar.py:137-139) and of
\* build_track_info (lines 222-224)
CallOrder ==
    <<"album_art", "calendar", "track_name", "artist_name", "context_icon",
      "context_text">>

\* calendar.py:87, clear_image
ClearImage ==
    /\ pc = "redraw"
    /\ frame' = clear_image(frame)
    /\ pc' = "build_album_art"
    /\ UNCHANGED <<world, exc, drawLocals, fetchLocals, history, cacheWrite, textVars, contextVars,
                   four_gray_scale, artifact, albumFetch, dithered, machine>>

\* calendar.py:137, build_album_art
BuildAlbumArt ==
    /\ pc = "build_album_art"
    /\ \E download \in DownloadOutcomes, dither \in DitherOutcomes :
          LET r == build_album_art(most_recent_track, should_download_album, artifact,
                                   download, four_gray_scale, dither)
          IN  /\ albumFetch' = r.fetch
              /\ dithered' = r.dither
              /\ artifact' = r.artifact
              /\ IF IsException(r.drawn)
                 THEN /\ pc' = "raised"
                      /\ exc' = r.drawn
                      /\ UNCHANGED frame
                 ELSE /\ pc' = "build_calendar"
                      /\ frame' = Append(frame, r.drawn)
                      /\ UNCHANGED exc
    /\ UNCHANGED <<world, drawLocals, fetchLocals, history, cacheWrite, textVars, contextVars,
                   four_gray_scale, machine>>

\* calendar.py:138, build_calendar
BuildCalendar ==
    /\ pc = "build_calendar"
    /\ frame' = Append(frame, CalendarPanel)
    /\ pc' = "build_track_info"
    /\ UNCHANGED <<world, exc, drawLocals, fetchLocals, history, cacheWrite, textVars, contextVars,
                   four_gray_scale, artifact, albumFetch, dithered, machine>>

\* calendar.py:139-140, build_track_info and save_local_file
BuildTrackInfo ==
    /\ pc = "build_track_info"
    /\ LET r == build_track_info(most_recent_track)
       IN  IF IsException(r)
           THEN /\ pc' = "raised"
                /\ exc' = r
                /\ UNCHANGED frame
           ELSE /\ pc' = "init_epd"
                /\ frame' = frame \o r.els
                /\ UNCHANGED exc
    /\ UNCHANGED <<world, drawLocals, fetchLocals, history, cacheWrite, textVars, contextVars,
                   four_gray_scale, artifact, albumFetch, dithered, machine>>

NextRender ==
    \/ ClearImage
    \/ BuildAlbumArt
    \/ BuildCalendar
    \/ BuildTrackInfo

SpecRender == InitRender /\ [][NextRender]_vars

-----------------------------------------------------------------------------
(* One call of draw_text_wrapped, at the place and with the line spacing of the
   calls of calendar.py:222-224 *)

InitWrap ==
    /\ cacheFile = Absent
    /\ sp = FALSE
    /\ now = StaleSeconds
    /\ pc = "wrap_call"
    /\ most_recent_track = Unset
    /\ cacheWrite = "none"
    /\ CallStart
    /\ textCall \in {TextCall(t, 10, 128, w, 0, i) : t \in Texts, w \in Widths, i \in Indents}
    /\ textOut = Unset
    /\ ContextIdle
    /\ four_gray_scale = FALSE
    /\ artifact = FALSE
    /\ RenderStart
    /\ MachineIdle

WrapCall ==
    /\ pc = "wrap_call"
    /\ textOut' = draw_text_wrapped(textCall)
    /\ pc' = "wrap_done"
    /\ UNCHANGED <<world, exc, drawLocals, fetchLocals, history, cacheWrite, textCall, contextVars,
                   renderVars, machine>>

NextWrap == WrapCall

SpecWrap == InitWrap /\ [][NextWrap]_vars

\* the width available to a drawn line: the first line starts `indent` to the right
Available(c, l) == IF l.line = 1 THEN c.width - c.indent ELSE c.width

-----------------------------------------------------------------------------
(* The program of main.py: the refresh thread, the button thread, the supervisor and
   the main thread, with the calls of Calendar.draw they make. Here the fetch is
   taken by what it hands back to calendar.py:57 and build_image by whether it
   returns or raises, so that the panel code of calendar.py:89-118 is exercised;
   Spec and SpecRender are their step by step models. *)

\* the init_epd threads a timed out join may leave behind
MaxOrphans == 1

\* a thread moves on to position p
Goto(p) == [kind |-> "goto", pc |-> p]

\* a handler that calls calendar.draw() at once
ButtonPressDraws == Goto("draw")

\* main.py:38-44 on a press: button_listener assigns last_button_press (line 41)
\* without declaring it global, so the name is local to the function and line 40
\* reads it before any assignment
ButtonPress == Raise("UnboundLocalError", 40)

\* the process runs until the main thread is over (every other thread is a daemon,
\* main.py:66-68)
Running == main_pc # "exited"

\* Thread.is_alive
Alive(p) == p \notin {"dead", "done", "none"}

\* a supervisor that starts a new thread at every check
RestartsAlways(p) == TRUE

\* main.py:51 and 56, `if not refresh_thread.is_alive()`: the thread at position p
\* is replaced
Restarts(p) == ~Alive(p)

\* what get_most_recent_spotipy_info hands to calendar.py:57: None, a track, or an
\* exception it lets through
FetchOutcomes ==
    {None, Raise("SpotifyOauthError", 107),
     extract_track_from_current_payload(
         CurrentPayload(Item("SongA", <<"Ann">>, "AlbumX", <<Image("AlbumX")>>), None),
         "ok", StaleSeconds)}

\* the frame build_image is written to leave, calendar.py:137-139
BuiltFrame(track) ==
    <<[kind |-> "pasted", el |-> "album_art", file |-> "AlbumImage_resize.PNG"],
      CalendarPanel,
      [kind |-> "pasted", el |-> "track_name", text |-> track.track_name],
      [kind |-> "pasted", el |-> "artist_name", text |-> track.artist_name],
      [kind |-> "pasted", el |-> "context_icon", text |-> track.context_type],
      [kind |-> "pasted", el |-> "context_text", text |-> track.context_name]>>

InitMain ==
    /\ cacheFile \in {Absent,
                       File(JsonObject(TrackKeys, "SongA", "Ann", "album", "AlbumX",
                                       ImageUrl("AlbumX"), "AlbumX", float(0)))}
    /\ sp = TRUE
    /\ now = StaleSeconds
    /\ pc = "idle"
    /\ most_recent_track = Unset
    /\ cacheWrite = "none"
    /\ CallStart
    /\ TextIdle
    /\ ContextIdle
    /\ four_gray_scale \in BOOLEAN
    /\ artifact = FALSE
    /\ RenderStart
    /\ tpc = [t \in Triggers |-> "loop"]
    /\ supervisor_pc = "loop"
    /\ main_pc = "running"
    /\ sleep_epd \in BOOLEAN
    /\ local_run \in BOOLEAN
    /\ MachineStart

\* the state of a call of Calendar.draw but its position
callVars == <<world, exc, drawLocals, fetchLocals, history, cacheWrite, textVars, contextVars, renderVars>>

\* a loop that goes on whether stop_event is set or not
LoopEndsNever(stop) == FALSE

\* main.py:24, 37 and 50, `while not stop_event.is_set():` the loop, and with it the
\* thread, is over when the event is set
LoopEnds(stop) == stop

\* main.py:24-30 and 37-39: the loop test of thread t, then the hour test of the
\* refresh thread or the is_pressed test of the button thread
TriggerLoop(t) ==
    /\ Running
    /\ tpc[t] = "loop"
    /\ \E cond \in BOOLEAN :
          LET next == IF LoopEnds(stop_event) THEN Goto("done")
                      ELSE IF t = "refresh"
                      THEN (IF cond THEN Goto("sleep") ELSE Goto("lock"))
                      ELSE (IF cond THEN ButtonPress ELSE Goto("sleep"))
          IN  /\ tpc' = [tpc EXCEPT ![t] = IF IsException(next) THEN "dead" ELSE next.pc]
              /\ ended' = [ended EXCEPT ![t] = IF IsException(next) THEN next ELSE @]
    /\ UNCHANGED <<pc, callVars, supervisor_pc, main_pc, draw_lock, stop_event, doubled,
                   panelVars, panelHist>>

\* main.py:31 and 41, `with draw_lock:` entered, and calendar.py:52-54
Acquire(t) ==
    /\ Running
    /\ tpc[t] = "lock"
    /\ draw_lock = "none"
    /\ draw_lock' = t
    /\ tpc' = [tpc EXCEPT ![t] = "draw"]
    /\ pc' = "read_cache"
    /\ exc' = None
    /\ last_drawn_track' = Unset
    /\ most_recent_track' = Unset
    /\ should_redraw' = DefaultShouldRedraw
    /\ should_download_album' = DefaultShouldDownloadAlbum
    /\ fetched' = Unset
    /\ worker' = "none"
    /\ pushedNow' = FALSE
    /\ pushedEarlier' = (pushedEarlier \/ pushedNow)
    /\ initNow' = FALSE
    /\ UNCHANGED <<world, fetchLocals, curQueries, recQueries, curAnswered, lastFailure,
                   refreshed, connFailed, queriedAfterConn, cacheWrite, textVars, contextVars,
                   renderVars, supervisor_pc, main_pc, stop_event, did_epd_init, epd,
                   orphans, sleep_epd, settingsVars, local_run, timedOut, threadHist>>

\* a with statement that releases the lock only when its body returns
WithExitOnReturnOnly(holder, how) == IF how = "returned" THEN "none" ELSE holder

\* main.py:31-33 and 42-44, `with draw_lock:` left by thread `holder`: Lock.__exit__
\* releases the lock whether the body returned or raised
WithExit(holder, how) == "none"

\* calendar.draw() is over in thread t: the with statement releases the lock; after
\* a return the thread sleeps (main.py:34, 45), an exception or SystemExit ends it
DrawLeave(t) ==
    /\ Running
    /\ tpc[t] = "draw"
    /\ draw_lock = t
    /\ pc \in {"returned", "raised"}
    /\ draw_lock' = WithExit(t, pc)
    /\ tpc' = [tpc EXCEPT ![t] = IF pc = "returned" THEN "sleep" ELSE "dead"]
    /\ ended' = [ended EXCEPT ![t] = IF pc = "returned" THEN @ ELSE exc]
    /\ pc' = "idle"
    /\ UNCHANGED <<callVars, supervisor_pc, main_pc, stop_event, doubled, panelVars,
                   panelHist>>

\* main.py:29, 34, 45: time.sleep is over
Wake(t) ==
    /\ Running
    /\ tpc[t] = "sleep"
    /\ tpc' = [tpc EXCEPT ![t] = "loop"]
    /\ UNCHANGED <<pc, callVars, supervisor_pc, main_pc, draw_lock, stop_event, threadHist,
                   panelVars, panelHist>>

\* main.py:50
SupervisorLoop ==
    /\ Running
    /\ supervisor_pc = "loop"
    /\ supervisor_pc' = IF LoopEnds(stop_event) THEN "done" ELSE "check"
    /\ UNCHANGED <<pc, callVars, tpc, threadHist, main_pc, draw_lock, stop_event, panelVars,
                   panelHist>>

\* main.py:51-59: a thread that is not alive is replaced by a new one
SupervisorCheck ==
    /\ Running
    /\ supervisor_pc = "check"
    /\ tpc' = [t \in Triggers |-> IF Restarts(tpc[t]) THEN "loop" ELSE tpc[t]]
    /\ ended' = [t \in Triggers |-> IF Restarts(tpc[t]) THEN None ELSE ended[t]]
    /\ doubled' = (doubled \/ \E t \in Triggers : Restarts(tpc[t]) /\ Alive(tpc[t]))
    /\ supervisor_pc' = "sleep"
    /\ UNCHANGED <<pc, callVars, main_pc, draw_lock, stop_event, panelVars, panelHist>>

\* main.py:61
SupervisorWake ==
    /\ Running
    /\ supervisor_pc = "sleep"
    /\ supervisor_pc' = "loop"
    /\ UNCHANGED <<pc, callVars, tpc, threadHist, main_pc, draw_lock, stop_event, panelVars,
                   panelHist>>

\* main.py:79-81: KeyboardInterrupt in the main thread
MainInterrupt ==
    /\ main_pc = "running"
    /\ stop_event' = TRUE
    /\ main_pc' = "join_refresh"
    /\ UNCHANGED <<pc, callVars, tpc, threadHist, supervisor_pc, draw_lock, panelVars, panelHist>>

\* main.py:82-84: the joins, one after the other; after the last the process ends
MainJoin ==
    /\ main_pc \in {"join_refresh", "join_button", "join_supervisor"}
    /\ IF main_pc = "join_refresh"
       THEN ~Alive(tpc["refresh"]) /\ main_pc' = "join_button"
       ELSE IF main_pc = "join_button"
       THEN ~Alive(tpc["button"]) /\ main_pc' = "join_supervisor"
       ELSE ~Alive(supervisor_pc) /\ main_pc' = "exited"
    /\ UNCHANGED <<pc, callVars, tpc, threadHist, supervisor_pc, draw_lock, stop_event, panelVars,
                   panelHist>>

\* calendar.py:57, get_most_recent_spotipy_info by its outcome
FetchCall ==
    /\ Running
    /\ pc = "fetch"
    /\ \E r \in FetchOutcomes : Deliver(r)
    /\ UNCHANGED <<world, last_drawn_track, should_redraw, should_download_album,
                   fetchLocals, curQueries, recQueries, curAnswered, lastFailure,
                   refreshed, connFailed, queriedAfterConn, rest>>

\* calendar.py:87-88, clear_image and build_image by its outcome
BuildImageCall ==
    /\ Running
    /\ pc = "redraw"
    /\ \E returns \in BOOLEAN :
          IF returns
          THEN /\ frame' = BuiltFrame(most_recent_track)
               /\ pc' = "init_epd"
               /\ UNCHANGED exc
          ELSE /\ frame' = <<>>
               /\ pc' = "raised"
               /\ exc' = Raise("Exception", 88)
    /\ UNCHANGED <<world, drawLocals, fetchLocals, history, cacheWrite, textVars, contextVars,
                   four_gray_scale, artifact, albumFetch, dithered, machine>>

\* calendar.py:89-92: the init_epd thread is started when the panel is not
\* initialised
StartInit ==
    /\ Running
    /\ pc = "init_epd"
    /\ IF ~did_epd_init /\ ~local_run
       THEN /\ worker' = "running"
            /\ initNow' = TRUE
            /\ pc' = "join"
       ELSE /\ pc' = "display"
            /\ UNCHANGED <<worker, initNow>>
    /\ UNCHANGED <<callVars, threadVars, threadHist, did_epd_init, epd, orphans, sleep_epd, settingsVars,
                   local_run, pushedNow, pushedEarlier, timedOut>>

\* calendar.py:43-50: epd.init() of the running call's thread returns, or raises the
\* RuntimeError init_epd catches
WorkerEnds ==
    /\ Running
    /\ worker = "running"
    /\ worker' = "finished"
    /\ \E ok \in BOOLEAN : epd' = IF ok THEN "ready" ELSE epd
    /\ UNCHANGED <<pc, callVars, threadVars, threadHist, did_epd_init, orphans, sleep_epd, settingsVars,
                   local_run, panelHist>>

\* the same for a thread whose join timed out
OrphanEnds ==
    /\ Running
    /\ orphans > 0
    /\ orphans' = orphans - 1
    /\ \E ok \in BOOLEAN : epd' = IF ok THEN "ready" ELSE epd
    /\ UNCHANGED <<pc, callVars, threadVars, threadHist, did_epd_init, worker, sleep_epd, settingsVars,
                   local_run, panelHist>>

\* calendar.py:93-105 when the thread is no longer alive after join(45):
\* Init_4Gray in 4-gray mode, then did_epd_init = True
JoinReturns ==
    /\ Running
    /\ pc = "join"
    /\ worker = "finished"
    /\ \E gray_ok \in BOOLEAN :
          IF four_gray_scale /\ ~gray_ok
          THEN /\ pc' = "raised"
               /\ exc' = Raise("RuntimeError", 102)
               /\ UNCHANGED <<did_epd_init, epd>>
          ELSE /\ pc' = "display"
               /\ did_epd_init' = TRUE
               /\ epd' = IF four_gray_scale THEN "ready" ELSE epd
               /\ UNCHANGED exc
    /\ UNCHANGED <<world, drawLocals, fetchLocals, history, cacheWrite, textVars, contextVars,
                   renderVars, threadVars, threadHist, worker, orphans, sleep_epd, settingsVars, local_run,
                   panelHist>>

\* calendar.py:93-96 when the thread is still alive after join(45): sys.exit(1)
\* raises SystemExit in the calling thread; the init_epd thread runs on
JoinTimeout ==
    /\ Running
    /\ pc = "join"
    /\ worker = "running"
    /\ orphans < MaxOrphans
    /\ pc' = "raised"
    /\ exc' = Raise("SystemExit", 96)
    /\ worker' = "none"
    /\ orphans' = orphans + 1
    /\ timedOut' = TRUE
    /\ UNCHANGED <<world, drawLocals, fetchLocals, history, cacheWrite, textVars, contextVars,
                   renderVars, threadVars, threadHist, did_epd_init, epd, sleep_epd, settingsVars, local_run,
                   pushedNow, pushedEarlier, initNow>>

\* a draw that hands no frame to the panel
PushesNever(initialized, local) == FALSE

\* calendar.py:107, `if self.did_epd_init and not self.local_run`
Pushes(initialized, local) == initialized /\ ~local

\* calendar.py:107-112
Display ==
    /\ Running
    /\ pc = "display"
    /\ pushedNow' = Pushes(did_epd_init, local_run)
    /\ pc' = "write"
    /\ UNCHANGED <<callVars, threadVars, threadHist, panelVars, pushedEarlier, initNow, timedOut>>

\* calendar.py:113
DrawWriteCache ==
    /\ Running
    /\ pc = "write"
    /\ \E opened \in BOOLEAN :
          LET w == write_track_to_cache(cacheFile, most_recent_track, opened)
          IN  /\ cacheFile' = w.file
              /\ cacheWrite' = w.how
              /\ IF IsException(w.exc)
                 THEN /\ pc' = "raised"
                      /\ exc' = w.exc
                 ELSE /\ pc' = "sleep_check"
                      /\ UNCHANGED exc
    /\ UNCHANGED <<sp, now, drawLocals, fetchLocals, history, textVars, contextVars, renderVars,
                   machine>>

\* calendar.py:115-122
SleepCheck ==
    /\ Running
    /\ pc \in {"no_redraw", "sleep_check"}
    /\ IF did_epd_init /\ sleep_epd
       THEN /\ epd' = "asleep"
            /\ did_epd_init' = FALSE
       ELSE UNCHANGED <<epd, did_epd_init>>
    /\ pc' = "returned"
    /\ UNCHANGED <<callVars, threadVars, threadHist, worker, orphans, sleep_epd, settingsVars, local_run,
                   panelHist>>

NextMain ==
    \/ \E t \in Triggers : TriggerLoop(t)
    \/ \E t \in Triggers : Acquire(t)
    \/ \E t \in Triggers : DrawLeave(t)
    \/ \E t \in Triggers : Wake(t)
    \/ SupervisorLoop
    \/ SupervisorCheck
    \/ SupervisorWake
    \/ MainInterrupt
    \/ MainJoin
    \/ Running /\ DrawReadCache
    \/ FetchCall
    \/ Running /\ Decide
    \/ BuildImageCall
    \/ StartInit
    \/ WorkerEnds
    \/ OrphanEnds
    \/ JoinReturns
    \/ JoinTimeout
    \/ Display
    \/ DrawWriteCache
    \/ SleepCheck

SpecMain == InitMain /\ [][NextMain]_vars

(* Calendar.draw from line 86, calendar.py:86-122 *)

\* the track a successful fetch hands to calendar.py:57
FetchedTrack == CHOOSE r \in FetchOutcomes : r.kind = "track"

\* The refresh thread is at line 86 of a call of Calendar.draw with either value of
\* should_redraw, the decision of lines 58-85 taken by its outcome. A call that
\* skips the redraw has read a track from the cache file; the panel is initialised
\* or not, as an earlier call left it (did_epd_init survives a call that was ended
\* by an exception after line 105), and a frame and an album art artifact of an
\* earlier call may be there.
InitTail ==
    /\ should_redraw \in BOOLEAN
    /\ pc = RedrawBranch(should_redraw)
    /\ cacheFile \in {f \in {Absent,
                              File(JsonObject(TrackKeys, "SongA", "Ann", "album", "AlbumX",
                                              ImageUrl("AlbumX"), "AlbumX", float(0)))} :
                         should_redraw \/ f # Absent}
    /\ sp = TRUE
    /\ now = StaleSeconds
    /\ exc = None
    /\ most_recent_track = FetchedTrack
    /\ last_drawn_track = IF should_redraw THEN None ELSE FetchedTrack
    /\ should_download_album = should_redraw
    /\ FetchIdle
    /\ cacheWrite = "none"
    /\ TextIdle
    /\ ContextIdle
    /\ four_gray_scale \in BOOLEAN
    /\ artifact \in BOOLEAN
    /\ frame \in {<<>>, BuiltFrame(FetchedTrack)}
    /\ albumFetch = "none"
    /\ dithered = "none"
    /\ tpc = [t \in Triggers |-> IF t = "refresh" THEN "draw" ELSE "loop"]
    /\ draw_lock = "refresh"
    /\ supervisor_pc = "loop"
    /\ main_pc = "running"
    /\ stop_event = FALSE
    /\ ended = [t \in Triggers |-> None]
    /\ doubled = FALSE
    /\ sleep_epd \in BOOLEAN
    /\ local_run \in BOOLEAN
    /\ did_epd_init \in {b \in BOOLEAN : b => ~local_run}
    /\ epd = IF did_epd_init THEN "ready" ELSE "off"
    /\ worker = "none"
    /\ orphans = 0
    /\ pushedNow = FALSE
    /\ pushedEarlier = did_epd_init
    /\ initNow = FALSE
    /\ timedOut = FALSE
    /\ SettingsIdle

NextTail ==
    \/ BuildImageCall
    \/ StartInit
    \/ WorkerEnds
    \/ OrphanEnds
    \/ JoinReturns
    \/ JoinTimeout
    \/ Display
    \/ DrawWriteCache
    \/ SleepCheck
    \/ \E t \in Triggers : DrawLeave(t)

SpecTail == InitTail /\ [][NextTail]_vars

\* the supervisor thread is scheduled: its loop test, its checks and the end of its
\* time.sleep(5) (main.py:50-61) are not put off forever
SupervisorFair ==
    /\ WF_vars(SupervisorLoop)
    /\ WF_vars(SupervisorCheck)
    /\ WF_vars(SupervisorWake)

SpecMainFair == SpecMain /\ SupervisorFair

\* Every thread is scheduled and every blocking call of a thread returns: the sleeps
\* (main.py:29, 34, 45, 61), the lock once it is free, the steps of Calendar.draw
\* with their timeouts (thread.join(45) is over in time or by the timeout), and the
\* joins of the main thread once their thread is over. epd.init() in an init_epd
\* thread need not return, and no interrupt need arrive.
ThreadsFair ==
    /\ SupervisorFair
    /\ \A t \in Triggers : WF_vars(TriggerLoop(t))
    /\ \A t \in Triggers : WF_vars(Acquire(t))
    /\ \A t \in Triggers : WF_vars(DrawLeave(t))
    /\ \A t \in Triggers : WF_vars(Wake(t))
    /\ WF_vars(MainJoin)
    /\ WF_vars(Running /\ DrawReadCache)
    /\ WF_vars(FetchCall)
    /\ WF_vars(Running /\ Decide)
    /\ WF_vars(BuildImageCall)
    /\ WF_vars(StartInit)
    /\ WF_vars(JoinReturns)
    /\ WF_vars(JoinTimeout \/ WorkerEnds)
    /\ WF_vars(Display)
    /\ WF_vars(DrawWriteCache)
    /\ WF_vars(SleepCheck)

SpecMainStop == SpecMain /\ ThreadsFair

-----------------------------------------------------------------------------
(* The start of the program: the import of lib.display_settings, which builds the
   settings object (display_settings.py:34), then Calendar() of main.py:17, which
   builds the Draw object (calendar.py:33) *)

\* how the `convert` of draw.py:39-47 can end (subprocess.run with check=True)
PaletteOutcomes == {"ok", "CalledProcessError"}

InitSettings ==
    /\ cacheFile = Absent
    /\ sp = FALSE
    /\ now = StaleSeconds
    /\ pc = "import_settings"
    /\ most_recent_track = Unset
    /\ cacheWrite = "none"
    /\ CallStart
    /\ TextIdle
    /\ ContextIdle
    /\ four_gray_scale = FALSE
    /\ artifact = FALSE
    /\ RenderStart
    /\ tpc = [t \in Triggers |-> "none"]
    /\ supervisor_pc = "none"
    /\ main_pc = "none"
    /\ sleep_epd = TRUE
    /\ local_run \in BOOLEAN
    /\ draw_lock = "none"
    /\ stop_event = FALSE
    /\ ended = [t \in Triggers |-> None]
    /\ doubled = FALSE
    /\ did_epd_init = FALSE
    /\ epd = "off"
    /\ worker = "none"
    /\ orphans = 0
    /\ pushedNow = FALSE
    /\ pushedEarlier = FALSE
    /\ initNow = FALSE
    /\ timedOut = FALSE
    /\ settingsFile \in SettingsFiles
    /\ display_settings = Unset
    /\ objects = {}

\* display_settings.py:34, run by the first import of the module (calendar.py:11):
\* an exception leaves the name display_settings unbound and ends the import
ImportSettings ==
    /\ pc = "import_settings"
    /\ LET r == DisplaySettings(settingsFile)
       IN  IF IsException(r)
           THEN /\ pc' = "raised"
                /\ exc' = r
                /\ UNCHANGED <<display_settings, four_gray_scale, sleep_epd>>
           ELSE /\ pc' = "calendar_init"
                /\ display_settings' = r
                /\ four_gray_scale' = r.four_gray_scale
                /\ sleep_epd' = r.sleep_epd
                /\ UNCHANGED exc
    /\ UNCHANGED <<world, drawLocals, fetchLocals, history, cacheWrite, textVars, contextVars,
                   artifact, frame, albumFetch, dithered, threadVars, threadHist, did_epd_init, epd,
                   worker,
                   orphans, local_run, panelHist, settingsFile, objects>>

\* calendar.py:17-30, Calendar.__init__ up to the Draw object: self.ds is the
\* settings object
CalendarInit ==
    /\ pc = "calendar_init"
    /\ objects' = objects \cup {"Calendar"}
    /\ pc' = "draw_init"
    /\ UNCHANGED <<world, exc, drawLocals, fetchLocals, history, cacheWrite, textVars, contextVars,
                   renderVars, threadVars, threadHist, did_epd_init, epd, worker, orphans,
                   sleep_epd, local_run, panelHist, settingsFile, display_settings>>

\* draw.py:23-50, Draw.__init__ called at calendar.py:33: self.ds is the settings
\* object; in 4-gray mode the palette is made by `convert`
DrawInit ==
    /\ pc = "draw_init"
    /\ \E palette \in PaletteOutcomes :
          IF display_settings.four_gray_scale /\ palette # "ok"
          THEN /\ pc' = "raised"
               /\ exc' = Raise("CalledProcessError", 39)
               /\ objects' = objects \ {"Calendar"}
          ELSE /\ pc' = "constructed"
               /\ objects' = objects \cup {"Draw"}
               /\ UNCHANGED exc
    /\ UNCHANGED <<world, drawLocals, fetchLocals, history, cacheWrite, textVars, contextVars,
                   renderVars, threadVars, threadHist, did_epd_init, epd, worker, orphans,
                   sleep_epd, local_run, panelHist, settingsFile, display_settings>>

NextSettings == ImportSettings \/ CalendarInit \/ DrawInit

SpecSettings == InitSettings /\ [][NextSettings]_vars

-----------------------------------------------------------------------------
(* One call of get_context_from_json, with the payloads its two callers hand it
   (spotify_user.py:140, 174) *)

\* the currently-playing answer, or the play history object of a recently-played one
TrackJsons ==
    (CurrentPayloads \ {None}) \cup {PlayHistory(i, c) : i \in Items, c \in Contexts}

ContextCall(track_json, lookup) == [track_json |-> track_json, lookup |-> lookup]

InitContext ==
    /\ cacheFile = Absent
    /\ sp = TRUE
    /\ now = StaleSeconds
    /\ pc = "context_call"
    /\ most_recent_track = Unset
    /\ cacheWrite = "none"
    /\ CallStart
    /\ TextIdle
    /\ contextCall \in {ContextCall(j, l) : j \in TrackJsons, l \in LookupOutcomes}
    /\ contextOut = Unset
    /\ four_gray_scale = FALSE
    /\ artifact = FALSE
    /\ RenderStart
    /\ MachineIdle

GetContext ==
    /\ pc = "context_call"
    /\ contextOut' = get_context_from_json(contextCall.track_json, contextCall.lookup)
    /\ pc' = "context_done"
    /\ UNCHANGED <<world, exc, drawLocals, fetchLocals, history, cacheWrite, textVars,
                   contextCall, renderVars, machine>>

\* draw.py:119-127: icon_dict.get(context_type, self.failure_icon)
icon_dict(context_type) ==
    IF context_type = "DJ" THEN "dj_icon"
    ELSE IF context_type = "playlist" THEN "playlist_icon"
    ELSE IF context_type = "album" THEN "album_icon"
    ELSE IF context_type = "artist" THEN "artist_icon"
    ELSE IF context_type = "collection" THEN "collection_icon"
    ELSE "failure_icon"

\* draw.py:105-141, draw_spot_context: the icon of the context type is pasted, then
\* the context text is drawn beside it
draw_spot_context(context_type, context_text) ==
    <<[kind |-> "pasted", el |-> "context_icon", icon |-> icon_dict(context_type)],
      [kind |-> "pasted", el |-> "context_text", text |-> context_text]>>

\* calendar.py:224: the context of a track is drawn. The track's context_type and
\* context_name are the pair get_context_from_json returned (spotify_user.py:140-148
\* and 174-179 store them unchanged).
DrawSpotContext ==
    /\ pc = "context_done"
    /\ contextOut.kind = "pair"
    /\ frame' = draw_spot_context(contextOut.type, contextOut.name)
    /\ pc' = "context_drawn"
    /\ UNCHANGED <<world, exc, drawLocals, fetchLocals, history, cacheWrite, textVars,
                   contextVars, four_gray_scale, artifact, albumFetch, dithered, machine>>

NextContext ==
    \/ GetContext
    \/ DrawSpotContext

SpecContext == InitContext /\ [][NextContext]_vars

\* the type of the context whose name get_context_from_json looks up for track_json:
\* that of the playing context, "album" when there is none but a track
\* (spotify_user.py:218-224), "none" when the function fails before the lookup
LookedUpType(track_json) ==
    IF Truthy(track_json.context) THEN track_json.context.type
    ELSE IF Truthy(track_json.track) \/ Truthy(track_json.item) THEN "album"
    ELSE "none"

-----------------------------------------------------------------------------
(* Positions of the call *)

\* get_most_recent_spotipy_info returned to calendar.py:57
FetchReturned == fetched.kind # "unset"

\* an exception left get_most_recent_spotipy_info
FetchRaised == pc = "raised" /\ ~FetchReturned /\ last_drawn_track.kind # "unset"

FetchOver == FetchReturned \/ FetchRaised

\* calendar.py:86 was reached: the decision of lines 58-85 is made
Decided == pc \in {"redraw", "no_redraw"}

\* lines 58-85 are over, by reaching line 86 or by an exception
DecisionOver == FetchReturned /\ pc \in {"redraw", "no_redraw", "raised"}

IsTrack(v) == v.kind = "track"

NoActiveItem(p) == IsNone(p) \/ p.item.kind \in {"missing", "None"}

-----------------------------------------------------------------------------
(* Claims *)

\* C1: when the fetch returns no track and a cached track is present, Calendar.draw
\* reaches its decision with should_redraw false and the cached track as the track
\* to show, whatever the age of the cached timestamp.
C1_CacheFallbackNeverRedraws ==
    (DecisionOver /\ IsNone(fetched) /\ IsTrack(last_drawn_track))
        => /\ pc = "no_redraw"
           /\ ~should_redraw
           /\ most_recent_track = last_drawn_track

\* C2: when a fetched and a cached track are both present, Calendar.draw redraws
\* exactly when they differ in a field other than timestamp or the cached timestamp is
\* more than 3600 seconds before now.
C2_RedrawIffChangedOrStale ==
    (DecisionOver /\ IsTrack(fetched) /\ IsTrack(last_drawn_track))
        => /\ Decided
           /\ should_redraw <=> (\/ ~TrackEq(fetched, last_drawn_track)
                                 \/ now - last_drawn_track.timestamp.secs > StaleSeconds)

\* C3: when a fetched and a cached track are both present, the album art flag handed
\* to the compositor is true exactly when the album names differ, and it is handed
\* over as true whenever they differ.
C3_RefetchIffAlbumDiffers ==
    (DecisionOver /\ IsTrack(fetched) /\ IsTrack(last_drawn_track))
        => /\ Decided
           /\ pc = "redraw" =>
                (should_download_album <=>
                    fetched.album_name # last_drawn_track.album_name)
           /\ fetched.album_name # last_drawn_track.album_name =>
                (pc = "redraw" /\ should_download_album)

\* C4: when the fetch returns no track and there is no cached track, Calendar.draw
\* shows a placeholder whose text fields are all "N/A" and decides to redraw with the
\* album art flag set.
C4_PlaceholderWhenNothingKnown ==
    (DecisionOver /\ IsNone(fetched) /\ IsNone(last_drawn_track))
        => /\ pc = "redraw"
           /\ should_redraw
           /\ should_download_album
           /\ IsTrack(most_recent_track)
           /\ most_recent_track.track_name = "N/A"
           /\ most_recent_track.artist_name = "N/A"
           /\ most_recent_track.context_type = "N/A"
           /\ most_recent_track.context_name = "N/A"
           /\ most_recent_track.track_image_link = "N/A"
           /\ most_recent_track.album_name = "N/A"

C4_Witness ==
    /\ pc = "redraw"
    /\ sp
    /\ recQueries > 0
    /\ IsNone(fetched)
    /\ IsNone(last_drawn_track)

\* C5: when the fetch returns a track and there is no cached track, Calendar.draw
\* redraws, with the fetched track and the album art flag set.
C5_FirstTrackAlwaysRedraws ==
    (DecisionOver /\ IsTrack(fetched) /\ IsNone(last_drawn_track))
        => /\ pc = "redraw"
           /\ should_redraw
           /\ should_download_album
           /\ most_recent_track = fetched

C5_Witness ==
    /\ pc = "redraw"
    /\ IsTrack(fetched)
    /\ IsNone(last_drawn_track)
    /\ cacheFile = File(InvalidJson)

\* C6: get_most_recent_spotipy_info never raises to its caller: whatever the service
\* answers, it returns a track or None.
C6_FetchNeverRaises ==
    /\ ~FetchRaised
    /\ FetchReturned => (IsTrack(fetched) \/ IsNone(fetched))

\* C7: one call of get_most_recent_spotipy_info sends at most 3 track queries,
\* counting both kinds together.
C7_AtMostThreeQueriesInAll == curQueries + recQueries <= 3

\* C7 as amended: at most 3 queries of each kind, so at most 6 in all.
C7_AtMostThreeQueriesPerKind ==
    /\ curQueries <= 3
    /\ recQueries <= 3
    /\ curQueries + recQueries <= 6

C7_Witness ==
    /\ curQueries = 3
    /\ recQueries = 3
    /\ FetchReturned

\* C8: once a track query failed with an unreachable host, no further query of either
\* kind is sent and the fetch returns None.
C8_ConnectivityFailureAborts ==
    connFailed => /\ ~queriedAfterConn
                  /\ FetchOver => (FetchReturned /\ IsNone(fetched))

C10_FallbackToRecentlyPlayed ==
    /\ recQueries > 0 => curQueries > 0
    /\ (FetchOver /\ curAnswered /\ NoActiveItem(payload)) => recQueries > 0
    /\ (curAnswered /\ ~NoActiveItem(payload)) => recQueries = 0
    /\ (FetchReturned /\ curAnswered /\ NoActiveItem(payload)
            /\ HasItemsKey(recent_payload) /\ Len(recent_payload.items) > 0)
        => /\ IsTrack(fetched)
           /\ fetched.track_name = recent_payload.items[1].track.name

\* C13: read_track_from_cache returns None, and does not raise, when the cache file is
\* absent, is no valid JSON, or is valid JSON of the wrong shape (not an object, or an
\* object with a field missing).
C13_MalformedCacheReadsAsNone ==
    (pc # "read_cache" /\ (cacheFile.kind = "absent" \/ cacheFile.json \in MalformedJson))
        => /\ IsNone(last_drawn_track)
           /\ ~(pc = "raised" /\ exc.line = 263)

\* C14: for every track T, write_track_to_cache(T) followed by read_track_from_cache()
\* returns a track equal to T in every field other than timestamp (the file being
\* writable).
C14_CacheRoundTrip ==
    (pc = "read_back_done" /\ cacheWrite # "os_error")
        => /\ IsTrack(last_drawn_track)
           /\ TrackEq(last_drawn_track, most_recent_track)

\* C15: every line drawn by draw_text_wrapped, a second line with the "..." suffix
\* included, has a measured width that does not exceed the width available to it.
C15_DrawnLinesFit ==
    pc = "wrap_done" =>
        \A k \in 1..Len(textOut.drawn) :
            TextWidth(textOut.drawn[k].text) <= Available(textCall, textOut.drawn[k])

\* C16: when the text left after the first line is wider than the width of the second
\* line, the second line drawn is a prefix of it, shorter than it, followed by "...";
\* the whole of it is drawn without ellipsis only when it fits.
C16_SecondLineTruncated ==
    (pc = "wrap_done" /\ Len(textOut.drawn) = 2) =>
        LET rem == textOut.remaining
            second == textOut.drawn[2].text
        IN  /\ TextWidth(rem) > textCall.width =>
                    \E k \in 0..(Len(rem) - 1) : second = Prefix(rem, k) \o Ellipsis
            /\ second = rem => TextWidth(rem) <= textCall.width

\* C17: draw_text_wrapped called with an empty or whitespace-only text draws nothing
\* and returns the starting y.
C17_BlankTextDrawsNothing ==
    (pc = "wrap_done" /\ \A i \in 1..Len(textCall.text) : textCall.text[i] = " ")
        => /\ textOut.drawn = <<>>
           /\ textOut.ret = int(textCall.init_y)

C17_Witness ==
    /\ pc = "wrap_done"
    /\ Len(textCall.text) = 3
    /\ \A i \in 1..3 : textCall.text[i] = " "
    /\ textOut.ret = int(128)

\* C18: when downloading or resizing the album art fails during a redraw, the call is
\* not ended by an exception, the placeholder image is on the frame once the album
\* art step is over, and the calendar and the track text follow it.
C18_PlaceholderOnArtFailure ==
    albumFetch = "failed"
        => /\ pc # "raised"
           /\ "album_art" \in Elements(frame)
           /\ frame[1].file = "NA.png"
           /\ pc = "init_epd" => {"calendar", "track_name"} \subseteq Elements(frame)

\* C19: a call of Calendar.draw that decided to redraw is not ended by an exception in
\* clear_image or build_image,
\* and when build_image is over the album art, the calendar, the track name, the
\* artist name and the context are on the frame.
C19_RedrawRunsToCompletion ==
    /\ pc # "raised"
    /\ pc = "init_epd" =>
            Elements(frame) = {"album_art", "calendar", "track_name", "artist_name",
                               "context_icon", "context_text"}

\* C11: with the refresh thread, the button thread and the supervisor running, at most
\* one execution of Calendar.draw is in progress.
C11_SingleFlightDraw ==
    /\ Cardinality({t \in Triggers : tpc[t] = "draw"}) <= 1
    /\ \A t \in Triggers : tpc[t] = "draw" => draw_lock = t
    /\ pc # "idle" => \E t \in Triggers : tpc[t] = "draw"

C11_Witness ==
    /\ tpc["refresh"] = "draw"
    /\ pc = "display"
    /\ tpc["button"] = "loop"
    /\ supervisor_pc = "check"
    /\ pushedEarlier
    /\ ~stop_event

C21_BothOnNeverLoads ==
    /\ (/\ pc # "import_settings"
        /\ settingsFile.kind = "json"
        /\ settingsFile.main_settings.kind = "dict"
        /\ settingsFile.main_settings.partial_update = JsonBool(TRUE)
        /\ settingsFile.main_settings.four_gray_scale = JsonBool(TRUE))
           => /\ pc = "raised"
              /\ IsException(exc)
              /\ display_settings = Unset
              /\ objects = {}
    /\ objects # {} =>
           /\ display_settings.kind = "DisplaySettings"
           /\ ~(display_settings.partial_update /\ display_settings.four_gray_scale)

\* a file with every key present and both settings on was loaded: ValueError
C21_Witness ==
    /\ pc = "raised"
    /\ exc = Raise("ValueError", 32)
    /\ settingsFile.kind = "json"
    /\ settingsFile.main_settings.kind = "dict"
    /\ settingsFile.main_settings.partial_update = JsonBool(TRUE)
    /\ settingsFile.main_settings.four_gray_scale = JsonBool(TRUE)

\* C22: in a redraw the compositor steps occur in the order: clear the buffer, draw
\* the calendar panel, draw the album art, draw the track name and the artist name,
\* draw the context icon and text.
C22_CalendarBeforeAlbumArt ==
    pc # "redraw" =>
        InOrder(frame, <<"calendar", "album_art", "track_name", "artist_name",
                         "context_icon", "context_text">>)

\* C22, amended: in a redraw the compositor steps that are made occur in the order:
\* clear the buffer, draw the album art, draw the calendar panel, draw the track name
\* and the artist name, draw the context icon and text.
C22_AlbumArtBeforeCalendar ==
    pc # "redraw" => InOrder(frame, CallOrder)

\* a redraw that started on a used image drew the album art and the calendar panel
C22_Witness ==
    /\ pc \in {"build_track_info", "raised"}
    /\ Len(frame) = 2
    /\ frame[1].el = "album_art"
    /\ frame[2].el = "calendar"

\* C23: in a redraw where no album art refetch is indicated and the resized artifact
\* exists, no download is made, the previously produced album art is pasted on the
\* frame, and the album art step is not ended by an exception.
C23_ReusesArtifact ==
    (/\ pc \notin {"redraw", "build_album_art"}
     /\ ~should_download_album
     /\ albumFetch = "none")
        => /\ exc # Raise("UnboundLocalError", 172)
           /\ Len(frame) >= 1
           /\ frame[1] = [kind |-> "pasted", el |-> "album_art",
                          file |-> "AlbumImage_resize.PNG"]

\* C24: the album art is downloaded in a redraw only if the album art flag is set or
\* the resized artifact file is missing; otherwise no download is attempted.
C24_DownloadOnlyWhenIndicated ==
    [][(albumFetch = "none" /\ albumFetch' # "none")
          => (should_download_album \/ ~artifact)]_vars

\* the album art step is over and a download was made with the flag off, because the
\* artifact was missing
C24_Witness ==
    /\ pc \notin {"redraw", "build_album_art"}
    /\ ~should_download_album
    /\ albumFetch = "saved"
    /\ artifact

\* C25: in 4-gray mode, when dither_album_art finds a file missing and returns None,
\* the album art step is not ended by an exception and the placeholder image is on
\* the frame.
C25_DitherFailureDrawsPlaceholder ==
    dithered = "None"
        => /\ exc = None \/ exc = Raise("TypeError", 222)
           /\ Len(frame) >= 1
           /\ frame[1] = [kind |-> "pasted", el |-> "album_art", file |-> "NA.png"]

C27_LookupFailureDegrades ==
    (pc = "context_done" /\ contextCall.lookup = "SpotifyException")
        => LET type == LookedUpType(contextCall.track_json)
           IN  /\ type = "playlist" =>
                     contextOut = [kind |-> "pair", type |-> "playlist", name |-> "DJ"]
               /\ type \in {"album", "artist"} =>
                     contextOut = [kind |-> "pair", type |-> type, name |-> ""]

\* the lookup of a playlist context failed and the call is over
C27_Witness ==
    /\ pc = "context_done"
    /\ contextCall.lookup = "SpotifyException"
    /\ LookedUpType(contextCall.track_json) = "playlist"
    /\ contextOut.kind = "pair"

\* C28: a button press observed after the cooldown makes the button thread run
\* Calendar.draw once, waiting for draw_lock if a render is in progress: handling
\* the press does not end the button thread, which dies only if the draw it called
\* raised.
C28_AcceptedPressDraws ==
    tpc["button"] = "dead" => ended["button"] # Raise("UnboundLocalError", 40)

\* C29: while stop_event is not set, whenever the refresh thread or the button thread
\* has died the supervisor eventually starts a replacement, and no thread is ever
\* started for a role whose thread is alive.
C29_SupervisorReplacesDeadThreads ==
    /\ []~doubled
    /\ \A t \in Triggers :
          (tpc[t] = "dead" /\ ~stop_event) ~> (tpc[t] # "dead" \/ stop_event)

\* the refresh thread was ended by the SystemExit of a timed out init and a thread of
\* its role runs again: the supervisor replaced it
C29_Witness ==
    /\ timedOut
    /\ ~stop_event
    /\ tpc["refresh"] = "lock"
    /\ tpc["button"] = "dead"
    /\ ~doubled

C31_OverflowDrawsWholeText ==
    (/\ pc = "wrap_done"
     /\ ~Blank(textCall.text)
     /\ textCall.width - textCall.indent > 0
     /\ TextWidth(Prefix(textCall.text, 1)) >= textCall.width - textCall.indent)
        => textOut.drawn = <<Line(1, textCall.init_x + textCall.indent, textCall.init_y,
                                  textCall.text)>>

C33_NoRedrawWhileUnchanged ==
    (/\ pc = "read_back_done"
     /\ cacheWrite # "os_error"
     /\ most_recent_track.timestamp.kind = "datetime")
        => /\ IsTrack(last_drawn_track)
           /\ \A recent \in {most_recent_track, None} :
                 LET d == RedrawDecision(last_drawn_track, recent,
                                         most_recent_track.timestamp.secs + StaleSeconds)
                 IN  /\ d.exc = None
                     /\ ~d.should_redraw

\* C34: the draw lock is held only by a trigger thread that is inside its call of
\* Calendar.draw: a call ended by an exception or by a thread exit leaves the lock
\* free, and no thread that is over, or that the supervisor started anew, holds it.
C34_LockHeldOnlyWhileDrawing ==
    \A t \in Triggers : draw_lock = t => tpc[t] = "draw"

C34_Witness ==
    /\ timedOut
    /\ ended["refresh"] = None
    /\ draw_lock = "refresh"
    /\ pc = "read_cache"

\* C35: no step of a call of Calendar.draw that decided not to redraw changes the
\* frame buffer, the cache file or the album art artifact, and the call pushes no
\* frame to the panel.
C35_NoRedrawLeavesAllUnchanged ==
    [][~should_redraw
          => /\ frame' = frame
             /\ cacheFile' = cacheFile
             /\ cacheWrite' = cacheWrite
             /\ artifact' = artifact
             /\ ~pushedNow']_vars

C35_Witness ==
    /\ ~should_redraw
    /\ pc = "returned"
    /\ epd = "asleep"
    /\ frame # <<>>
    /\ artifact

C37_DJSentinelDrawsDJIcon ==
    pc = "context_drawn"
        => LET icon == frame[1].icon
               type == contextOut.type
           IN  IF contextCall.lookup = "SpotifyException" /\ contextOut.name = "DJ"
               THEN icon = "dj_icon"
               ELSE IF type \in {"playlist", "album", "artist", "collection"}
               THEN icon = type \o "_icon"
               ELSE icon = "failure_icon"

====
